---- MODULE Spec2Model ----
(***************************************************************************)
(* Model of tlpipe/rfi/sum_threshold.py: class SumThreshold, the           *)
(* sum-threshold RFI detector.  Arrays are indexed from 0 as in the        *)
(* source: vis[y][x] is self.vis[y, x], vis_mask[y][x] is                  *)
(* self.vis_mask[y, x].                                                    *)
(*                                                                         *)
(* Three specifications share the definitions below:                       *)
(*   Spec      the life of a detector: construction, then execute calls,   *)
(*             one action per call of horizontal_sum_threshold and of      *)
(*             vertical_sum_threshold;                                     *)
(*   ScanSpec  the inside of one pass with length > 1, one action per      *)
(*             statement group of the loops, lines in the source's order;  *)
(*   LinesSpec the same steps with the lines of the pass taken in any      *)
(*             order and interleaving.                                     *)
(*                                                                         *)
(* Samples are integer valued and the test  sm / cnt > threshold  (float   *)
(* division: self.vis is a float array) is evaluated as                    *)
(* sm > threshold * cnt, which is the same comparison for cnt > 0.         *)
(***************************************************************************)
EXTENDS Integers, Sequences, FiniteSets, TLC

VARIABLES
    vis,            \* self.vis
    vis_mask,       \* self.vis_mask
    height, width,  \* self.vis.shape
    lengths,        \* self.lengths   (set by the base class)
    thresholds,     \* self.thresholds (set by the base class)
    min_connected,  \* self.min_connected
    mc_arg,         \* the min_connected argument given to __init__
    sensitivity,    \* the argument of execute
    prev_sens,      \* the argument of the execute call before (0: none)
    pc,             \* where the caller / execute stands
    i,              \* index of the schedule entry in execute_threshold (1-based)
    runs,           \* number of execute calls made so far
    init_mask,      \* vis_mask as __init__ left it
    exec_mask,      \* vis_mask when the current execute call began
    snap,           \* vis_mask when the current / last pass began
    length,         \* argument of the current / last pass
    threshold,      \* argument of the current / last pass (already scaled)
    axis,           \* "h" or "v": the current / last pass
    tmp_mask,       \* the local tmp_mask of a pass with length > 1
    scan            \* per line: the locals sm, cnt, left/top, right/bottom

vars == <<vis, vis_mask, height, width, lengths, thresholds, min_connected,
          mc_arg, sensitivity, prev_sens, pc, i, runs, init_mask, exec_mask,
          snap, length, threshold, axis, tmp_mask, scan>>

(***************************************************************************)
(* Bounds of the model.                                                    *)
(***************************************************************************)
MaxCells == 4      \* arrays have at most this many samples (height * width)
MaxRuns == 2       \* execute is called at most this many times

\* Sample values: a quiet sample, and two strong ones that lie on and above
\* the length-1 threshold at sensitivity 2 (and whose means with a quiet
\* sample lie below and on the length-2 threshold at sensitivity 2).
VisValues == {1, 10, 11}
Sensitivities == {1, 2}
MinConnectedArgs == {0, 1, 2}
DefaultMinConnected == 1

Rows(h) == 0 .. (h - 1)
Cols(w) == 0 .. (w - 1)
Arrays(h, w, S) == [Rows(h) -> [Cols(w) -> S]]
Shapes == {s \in (1 .. MaxCells) \X (1 .. MaxCells) : s[1] * s[2] <= MaxCells}

(***************************************************************************)
(* Schedules: self.lengths and self.thresholds as the base class leaves    *)
(* them, lengths doubling and thresholds falling.                          *)
(***************************************************************************)
ScheduleLengths == {<<1>>, <<2>>, <<4>>, <<1, 2, 4>>}
ThresholdOf(L) == IF L = 1 THEN 5 ELSE IF L = 2 THEN 3 ELSE 2
ThresholdsFor(ls) == [k \in 1 .. Len(ls) |-> ThresholdOf(ls[k])]

EmptyMask(h, w) == [y \in Rows(h) |-> [x \in Cols(w) |-> FALSE]]
MaskSubset(m1, m2, h, w) ==
    \A y \in Rows(h) : \A x \in Cols(w) : m1[y][x] => m2[y][x]

(***************************************************************************)
(* __init__ (line 12): the stored min_connected.                           *)
(***************************************************************************)
StoredMinConnected(mc) == IF mc > 1 THEN mc ELSE 1

\* A faulty variant of HSingle: the comparison is >= instead of >.
HSingle_ge(v, m, h, w, thr) ==
    [y \in Rows(h) |-> [x \in Cols(w) |->
        IF (~m[y][x]) /\ (v[y][x] >= thr) THEN TRUE ELSE m[y][x]]]

(***************************************************************************)
(* The length == 1 branch of horizontal_sum_threshold (lines 22-26).       *)
(***************************************************************************)
HSingle(v, m, h, w, thr) ==
    [y \in Rows(h) |-> [x \in Cols(w) |->
        IF (~m[y][x]) /\ (v[y][x] > thr) THEN TRUE ELSE m[y][x]]]

(***************************************************************************)
(* The length > 1 branch of horizontal_sum_threshold, by statement.        *)
(* A scan state st is the record of the locals sm, cnt, left, right.       *)
(***************************************************************************)
\* lines 30-34: the initialisation and the priming loop
\*   for right in xrange(length-1)
\* run for n iterations; right keeps the last value the loop gave it.
RECURSIVE HPrimeLoop(_, _, _, _)
HPrimeLoop(v, m, y, n) ==
    IF n = 0 THEN [sm |-> 0, cnt |-> 0, left |-> 0, right |-> 0]
    ELSE LET p == HPrimeLoop(v, m, y, n - 1)
             r == n - 1
         IN  IF ~m[y][r]
             THEN [sm |-> p.sm + v[y][r], cnt |-> p.cnt + 1, left |-> 0, right |-> r]
             ELSE [p EXCEPT !.right = r]

HPrime(v, m, y, len) == HPrimeLoop(v, m, y, len - 1)

\* lines 38-40: add the sample at the right
HAdd(v, m, y, st) ==
    IF ~m[y][st.right]
    THEN [st EXCEPT !.sm = @ + v[y][st.right], !.cnt = @ + 1]
    ELSE st

\* line 42: the check
HExceeds(st, thr) == (st.cnt > 0) /\ (st.sm > thr * st.cnt)

\* A faulty variant of HFlag: the slice tmp_mask[y:, left:left+length], which
\* also writes the rows below y.
HFlag_rows(tmp, y, st, len, w) ==
    [r \in DOMAIN tmp |-> [x \in Cols(w) |->
        IF r >= y /\ st.left <= x /\ x < st.left + len
        THEN TRUE ELSE tmp[r][x]]]

\* line 43: tmp_mask[y, left:left+length] = True (a slice: clipped to the row)
HFlag(tmp, y, st, len, w) ==
    [r \in DOMAIN tmp |-> [x \in Cols(w) |->
        IF r = y /\ st.left <= x /\ x < st.left + len
        THEN TRUE ELSE tmp[r][x]]]

\* lines 42-43
HCheck(tmp, y, st, len, thr, w) ==
    IF HExceeds(st, thr) THEN HFlag(tmp, y, st, len, w) ELSE tmp

\* lines 45-50: subtract the sample at the left and advance both edges
HSub(v, m, y, st) ==
    LET s == IF ~m[y][st.left]
             THEN [st EXCEPT !.sm = @ - v[y][st.left], !.cnt = @ - 1]
             ELSE st
    IN  [s EXCEPT !.left = @ + 1, !.right = @ + 1]

\* lines 36-50: the while loop of one row
RECURSIVE HWhile(_, _, _, _, _, _, _, _)
HWhile(v, m, tmp, y, st, len, thr, w) ==
    IF st.right < w
    THEN LET a == HAdd(v, m, y, st)
         IN  HWhile(v, m, HCheck(tmp, y, a, len, thr, w), y, HSub(v, m, y, a),
                    len, thr, w)
    ELSE tmp

\* lines 29-50: the loop over the rows, from row y on
RECURSIVE HRows(_, _, _, _, _, _, _, _)
HRows(v, m, tmp, y, h, w, len, thr) ==
    IF y < h
    THEN HRows(v, m, HWhile(v, m, tmp, y, HPrime(v, m, y, len), len, thr, w),
               y + 1, h, w, len, thr)
    ELSE tmp

\* A faulty variant of horizontal_sum_threshold: tmp_mask starts all false
\* (zeros_like) instead of as a copy of the mask.
horizontal_sum_threshold_zeroed(v, m, h, w, len, thr) ==
    IF len > w THEN m
    ELSE IF len = 1 THEN HSingle(v, m, h, w, thr)
    ELSE IF len > 1 THEN HRows(v, m, EmptyMask(h, w), 0, h, w, len, thr)
    ELSE m

\* A faulty variant of horizontal_sum_threshold: the guard is off by one,
\* length > width + 1.
horizontal_sum_threshold_wide(v, m, h, w, len, thr) ==
    IF len > w + 1 THEN m
    ELSE IF len = 1 THEN HSingle(v, m, h, w, thr)
    ELSE IF len > 1 THEN HRows(v, m, m, 0, h, w, len, thr)
    ELSE m

\* lines 15-53: the mask horizontal_sum_threshold leaves
horizontal_sum_threshold(v, m, h, w, len, thr) ==
    IF len > w THEN m
    ELSE IF len = 1 THEN HSingle(v, m, h, w, thr)
    ELSE IF len > 1 THEN HRows(v, m, m, 0, h, w, len, thr)
    ELSE m

\* A faulty variant of VSingle: the mask is assigned the comparison,
\* self.vis_mask[y, x] = self.vis[y, x] > threshold, whatever it held.
VSingle_assign(v, m, h, w, thr) ==
    [y \in Rows(h) |-> [x \in Cols(w) |-> v[y][x] > thr]]

(***************************************************************************)
(* The length == 1 branch of vertical_sum_threshold (lines 62-66).         *)
(***************************************************************************)
VSingle(v, m, h, w, thr) ==
    [y \in Rows(h) |-> [x \in Cols(w) |->
        IF (~m[y][x]) /\ (v[y][x] > thr) THEN TRUE ELSE m[y][x]]]

(***************************************************************************)
(* The length > 1 branch of vertical_sum_threshold, by statement.          *)
(* A scan state st is the record of the locals sm, cnt, top, bottom.       *)
(***************************************************************************)
\* lines 70-74
RECURSIVE VPrimeLoop(_, _, _, _)
VPrimeLoop(v, m, x, n) ==
    IF n = 0 THEN [sm |-> 0, cnt |-> 0, top |-> 0, bottom |-> 0]
    ELSE LET p == VPrimeLoop(v, m, x, n - 1)
             b == n - 1
         IN  IF ~m[b][x]
             THEN [sm |-> p.sm + v[b][x], cnt |-> p.cnt + 1, top |-> 0, bottom |-> b]
             ELSE [p EXCEPT !.bottom = b]

VPrime(v, m, x, len) == VPrimeLoop(v, m, x, len - 1)

\* lines 78-80: add the sample at the bottom
VAdd(v, m, x, st) ==
    IF ~m[st.bottom][x]
    THEN [st EXCEPT !.sm = @ + v[st.bottom][x], !.cnt = @ + 1]
    ELSE st

\* line 82: the check
VExceeds(st, thr) == (st.cnt > 0) /\ (st.sm > thr * st.cnt)

\* line 83: tmp_mask[top:top+length, x] = True (a slice: clipped to the column)
VFlag(tmp, x, st, len, h) ==
    [y \in Rows(h) |-> [c \in DOMAIN tmp[y] |->
        IF c = x /\ st.top <= y /\ y < st.top + len
        THEN TRUE ELSE tmp[y][c]]]

\* lines 82-83
VCheck(tmp, x, st, len, thr, h) ==
    IF VExceeds(st, thr) THEN VFlag(tmp, x, st, len, h) ELSE tmp

\* lines 85-90: subtract the sample at the top and advance both edges
VSub(v, m, x, st) ==
    LET s == IF ~m[st.top][x]
             THEN [st EXCEPT !.sm = @ - v[st.top][x], !.cnt = @ - 1]
             ELSE st
    IN  [s EXCEPT !.top = @ + 1, !.bottom = @ + 1]

\* lines 76-90: the while loop of one column
RECURSIVE VWhile(_, _, _, _, _, _, _, _)
VWhile(v, m, tmp, x, st, len, thr, h) ==
    IF st.bottom < h
    THEN LET a == VAdd(v, m, x, st)
         IN  VWhile(v, m, VCheck(tmp, x, a, len, thr, h), x, VSub(v, m, x, a),
                    len, thr, h)
    ELSE tmp

\* lines 69-90: the loop over the columns, from column x on
RECURSIVE VColumns(_, _, _, _, _, _, _, _)
VColumns(v, m, tmp, x, h, w, len, thr) ==
    IF x < w
    THEN VColumns(v, m, VWhile(v, m, tmp, x, VPrime(v, m, x, len), len, thr, h),
                  x + 1, h, w, len, thr)
    ELSE tmp

\* lines 55-93: the mask vertical_sum_threshold leaves
vertical_sum_threshold(v, m, h, w, len, thr) ==
    IF len > h THEN m
    ELSE IF len = 1 THEN VSingle(v, m, h, w, thr)
    ELSE IF len > 1 THEN VColumns(v, m, m, 0, h, w, len, thr)
    ELSE m

(***************************************************************************)
(* execute_threshold (lines 95-98) as a function of the mask it is given.  *)
(***************************************************************************)
ZipLen(ls, ts) == IF Len(ls) < Len(ts) THEN Len(ls) ELSE Len(ts)

\* lines 97-98: the two passes of one schedule entry
EntryPasses(v, m, h, w, len, thr) ==
    vertical_sum_threshold(v, horizontal_sum_threshold(v, m, h, w, len, thr),
                           h, w, len, thr)

\* lines 96-98: the mask after the first k entries of zip(lengths, thresholds)
execute_threshold(v, m, h, w, ls, ts, factor) ==
    LET after[k \in 0 .. ZipLen(ls, ts)] ==
            IF k = 0 THEN m
            ELSE EntryPasses(v, after[k - 1], h, w, ls[k], factor * ts[k])
    IN  after[ZipLen(ls, ts)]

(***************************************************************************)
(* The base class's execute, which is not among the sources: it hands the  *)
(* sensitivity to execute_threshold as the factor.                         *)
(***************************************************************************)
Factor(s) == s

(***************************************************************************)
(* Spec: construction and execute calls.                                   *)
(***************************************************************************)
NoScan == <<>>

InitWith(h, w, v, m, ls, mc) ==
    /\ height = h /\ width = w
    /\ vis = v
    /\ vis_mask = m
    /\ lengths = ls
    /\ thresholds = ThresholdsFor(ls)
    /\ mc_arg = mc
    /\ min_connected = StoredMinConnected(mc)
    /\ sensitivity = 0
    /\ prev_sens = 0
    /\ pc = "idle"
    /\ i = 0
    /\ runs = 0
    /\ init_mask = m
    /\ exec_mask = m
    /\ snap = m
    /\ length = 0
    /\ threshold = 0
    /\ axis = "none"
    /\ tmp_mask = NoScan
    /\ scan = NoScan

\* Scenario array of the specification: one row, eight columns.
ScenarioRow == <<1, 1, 1, 1, 9, 1, 1, 1>>
ScenarioVis == [y \in Rows(1) |-> [x \in Cols(8) |-> ScenarioRow[x + 1]]]

\* A detector built with the default min_connected (line 8).
InitBounded ==
    \E s \in Shapes :
      \E v \in Arrays(s[1], s[2], VisValues) :
        \E m \in Arrays(s[1], s[2], BOOLEAN) :
          \E ls \in ScheduleLengths :
            InitWith(s[1], s[2], v, m, ls, DefaultMinConnected)

InitScenario ==
    \E ls \in {<<1>>, <<2>>} :
        InitWith(1, 8, ScenarioVis, EmptyMask(1, 8), ls, DefaultMinConnected)

Init == InitBounded \/ InitScenario

\* execute(sensitivity), line 101: the base class's execute starts
\* execute_threshold with the first schedule entry.
Execute(s) ==
    /\ pc \in {"idle", "done", "raised"}
    /\ runs < MaxRuns
    /\ runs' = runs + 1
    /\ sensitivity' = s
    /\ prev_sens' = sensitivity
    /\ exec_mask' = vis_mask
    /\ i' = 1
    /\ pc' = IF ZipLen(lengths, thresholds) >= 1 THEN "h_call" ELSE "ret"
    /\ UNCHANGED <<vis, vis_mask, height, width, lengths, thresholds,
                   min_connected, mc_arg, init_mask, snap, length, threshold,
                   axis, tmp_mask, scan>>

\* line 97: one call of horizontal_sum_threshold
Horizontal ==
    /\ pc = "h_call"
    /\ length' = lengths[i]
    /\ threshold' = Factor(sensitivity) * thresholds[i]
    /\ axis' = "h"
    /\ snap' = vis_mask
    /\ vis_mask' = horizontal_sum_threshold(vis, vis_mask, height, width,
                       lengths[i], Factor(sensitivity) * thresholds[i])
    /\ pc' = "v_call"
    /\ UNCHANGED <<vis, height, width, lengths, thresholds, min_connected,
                   mc_arg, sensitivity, prev_sens, i, runs, init_mask,
                   exec_mask, tmp_mask, scan>>

\* line 98: one call of vertical_sum_threshold, then the next schedule entry
Vertical ==
    /\ pc = "v_call"
    /\ length' = lengths[i]
    /\ threshold' = Factor(sensitivity) * thresholds[i]
    /\ axis' = "v"
    /\ snap' = vis_mask
    /\ vis_mask' = vertical_sum_threshold(vis, vis_mask, height, width,
                       lengths[i], Factor(sensitivity) * thresholds[i])
    /\ i' = i + 1
    /\ pc' = IF i + 1 <= ZipLen(lengths, thresholds) THEN "h_call" ELSE "ret"
    /\ UNCHANGED <<vis, height, width, lengths, thresholds, min_connected,
                   mc_arg, sensitivity, prev_sens, runs, init_mask,
                   exec_mask, tmp_mask, scan>>

\* A faulty variant of Raises: the test is min_connected > 2.
Raises_gt2(mc) == mc > 2

\* lines 103-105: after the passes, the min_connected test
Raises(mc) == mc > 1

ExecuteReturn ==
    /\ pc = "ret"
    /\ pc' = IF Raises(min_connected) THEN "raised" ELSE "done"
    /\ UNCHANGED <<vis, vis_mask, height, width, lengths, thresholds,
                   min_connected, mc_arg, sensitivity, prev_sens, i, runs,
                   init_mask, exec_mask, snap, length, threshold, axis, tmp_mask, scan>>

Next ==
    \/ \E s \in Sensitivities : Execute(s)
    \/ Horizontal
    \/ Vertical
    \/ ExecuteReturn

Spec == Init /\ [][Next]_vars

(***************************************************************************)
(* ConnectedSpec: the same detector built with any min_connected and no    *)
(* mask supplied (the mask starts all false), on the full schedule.        *)
(***************************************************************************)
ConnectedInit ==
    \E s \in Shapes :
      \E v \in Arrays(s[1], s[2], VisValues) :
        \E mc \in MinConnectedArgs :
          InitWith(s[1], s[2], v, EmptyMask(s[1], s[2]), <<1, 2, 4>>, mc)

ConnectedSpec == ConnectedInit /\ [][Next]_vars

(***************************************************************************)
(* ScanSpec and LinesSpec: the inside of one pass with length > 1.         *)
(* scan[l] holds, for line l (a row of a horizontal pass, a column of a    *)
(* vertical one), where the line's scan stands (todo, add, check, done),   *)
(* its locals st, and the left edges of the windows tested so far.         *)
(* The state begins after tmp_mask = self.vis_mask.copy() (lines 28, 68).  *)
(***************************************************************************)
ScanThresholds == {Factor(s) * ThresholdOf(2) : s \in Sensitivities}

ScanInitWith(h, w, v, m, ax, len, thr) ==
    /\ height = h /\ width = w
    /\ vis = v
    /\ vis_mask = m
    /\ lengths = <<len>>
    /\ thresholds = <<thr>>
    /\ mc_arg = 1
    /\ min_connected = 1
    /\ sensitivity = 1
    /\ prev_sens = 0
    /\ pc = "scan"
    /\ i = 1
    /\ runs = 1
    /\ init_mask = m
    /\ exec_mask = m
    /\ snap = m
    /\ length = len
    /\ threshold = thr
    /\ axis = ax
    /\ tmp_mask = m
    /\ scan = [l \in (IF ax = "h" THEN Rows(h) ELSE Cols(w)) |->
                 [pc |-> "todo", st |-> <<>>, tested |-> <<>>]]

ScanInit ==
    \E s \in Shapes :
      \E v \in Arrays(s[1], s[2], VisValues) :
        \E m \in Arrays(s[1], s[2], BOOLEAN) :
          \E ax \in {"h", "v"} :
            \E len \in 2 .. (IF ax = "h" THEN s[2] ELSE s[1]) :
              \E thr \in ScanThresholds :
                ScanInitWith(s[1], s[2], v, m, ax, len, thr)

\* The source scans the lines one after the other, in increasing order.
InOrder(l) == \A k \in DOMAIN scan : k < l => scan[k].pc = "done"

ScanFrame ==
    UNCHANGED <<vis, height, width, lengths, thresholds, min_connected,
                mc_arg, sensitivity, prev_sens, i, runs, init_mask, exec_mask,
                snap, length, threshold, axis>>

\* lines 30-34, then the first evaluation of  while(right < width)
HPrimeStep(y, ordered) ==
    /\ pc = "scan" /\ axis = "h"
    /\ ordered => InOrder(y)
    /\ scan[y].pc = "todo"
    /\ LET st == HPrime(vis, vis_mask, y, length)
       IN  scan' = [scan EXCEPT ![y] =
                      [pc |-> IF st.right < width THEN "add" ELSE "done",
                       st |-> st, tested |-> <<>>]]
    /\ UNCHANGED <<vis_mask, tmp_mask, pc>>
    /\ ScanFrame

\* lines 38-40
HAddStep(y, ordered) ==
    /\ pc = "scan" /\ axis = "h"
    /\ ordered => InOrder(y)
    /\ scan[y].pc = "add"
    /\ scan' = [scan EXCEPT ![y].pc = "check",
                            ![y].st = HAdd(vis, vis_mask, y, scan[y].st)]
    /\ UNCHANGED <<vis_mask, tmp_mask, pc>>
    /\ ScanFrame

\* lines 42-50, then the next evaluation of  while(right < width)
HCheckStep(y, ordered) ==
    /\ pc = "scan" /\ axis = "h"
    /\ ordered => InOrder(y)
    /\ scan[y].pc = "check"
    /\ tmp_mask' = HCheck(tmp_mask, y, scan[y].st, length, threshold, width)
    /\ LET st == HSub(vis, vis_mask, y, scan[y].st)
       IN  scan' = [scan EXCEPT ![y] =
                      [pc |-> IF st.right < width THEN "add" ELSE "done",
                       st |-> st,
                       tested |-> Append(scan[y].tested, scan[y].st.left)]]
    /\ UNCHANGED <<vis_mask, pc>>
    /\ ScanFrame

\* line 53: self.vis_mask[:] = tmp_mask
HCommit ==
    /\ pc = "scan" /\ axis = "h"
    /\ \A y \in DOMAIN scan : scan[y].pc = "done"
    /\ vis_mask' = tmp_mask
    /\ pc' = "committed"
    /\ UNCHANGED <<tmp_mask, scan>>
    /\ ScanFrame

\* lines 70-74, then the first evaluation of  while(bottom < height)
VPrimeStep(x, ordered) ==
    /\ pc = "scan" /\ axis = "v"
    /\ ordered => InOrder(x)
    /\ scan[x].pc = "todo"
    /\ LET st == VPrime(vis, vis_mask, x, length)
       IN  scan' = [scan EXCEPT ![x] =
                      [pc |-> IF st.bottom < height THEN "add" ELSE "done",
                       st |-> st, tested |-> <<>>]]
    /\ UNCHANGED <<vis_mask, tmp_mask, pc>>
    /\ ScanFrame

\* lines 78-80
VAddStep(x, ordered) ==
    /\ pc = "scan" /\ axis = "v"
    /\ ordered => InOrder(x)
    /\ scan[x].pc = "add"
    /\ scan' = [scan EXCEPT ![x].pc = "check",
                            ![x].st = VAdd(vis, vis_mask, x, scan[x].st)]
    /\ UNCHANGED <<vis_mask, tmp_mask, pc>>
    /\ ScanFrame

\* lines 82-90, then the next evaluation of  while(bottom < height)
VCheckStep(x, ordered) ==
    /\ pc = "scan" /\ axis = "v"
    /\ ordered => InOrder(x)
    /\ scan[x].pc = "check"
    /\ tmp_mask' = VCheck(tmp_mask, x, scan[x].st, length, threshold, height)
    /\ LET st == VSub(vis, vis_mask, x, scan[x].st)
       IN  scan' = [scan EXCEPT ![x] =
                      [pc |-> IF st.bottom < height THEN "add" ELSE "done",
                       st |-> st,
                       tested |-> Append(scan[x].tested, scan[x].st.top)]]
    /\ UNCHANGED <<vis_mask, pc>>
    /\ ScanFrame

\* line 93: self.vis_mask[:] = tmp_mask
VCommit ==
    /\ pc = "scan" /\ axis = "v"
    /\ \A x \in DOMAIN scan : scan[x].pc = "done"
    /\ vis_mask' = tmp_mask
    /\ pc' = "committed"
    /\ UNCHANGED <<tmp_mask, scan>>
    /\ ScanFrame

ScanNext ==
    \/ \E y \in Rows(height) : HPrimeStep(y, TRUE)
    \/ \E y \in Rows(height) : HAddStep(y, TRUE)
    \/ \E y \in Rows(height) : HCheckStep(y, TRUE)
    \/ HCommit
    \/ \E x \in Cols(width) : VPrimeStep(x, TRUE)
    \/ \E x \in Cols(width) : VAddStep(x, TRUE)
    \/ \E x \in Cols(width) : VCheckStep(x, TRUE)
    \/ VCommit

ScanSpec == ScanInit /\ [][ScanNext]_vars

LinesNext ==
    \/ \E y \in Rows(height) : HPrimeStep(y, FALSE)
    \/ \E y \in Rows(height) : HAddStep(y, FALSE)
    \/ \E y \in Rows(height) : HCheckStep(y, FALSE)
    \/ HCommit
    \/ \E x \in Cols(width) : VPrimeStep(x, FALSE)
    \/ \E x \in Cols(width) : VAddStep(x, FALSE)
    \/ \E x \in Cols(width) : VCheckStep(x, FALSE)
    \/ VCommit

LinesSpec == ScanInit /\ [][LinesNext]_vars

(***************************************************************************)
(* What the claims speak of.                                               *)
(***************************************************************************)
\* A line of an array: row y, column x (as functions of the position).
RowOf(a, y) == a[y]
ColumnOf(a, x, h) == [k \in Rows(h) |-> a[k][x]]

\* Sum and number of the samples of a line, unmasked in lm, at the n
\* positions from.. from+n-1.
RECURSIVE WinSum(_, _, _, _)
WinSum(lv, lm, from, n) ==
    IF n = 0 THEN 0
    ELSE WinSum(lv, lm, from, n - 1)
         + (IF ~lm[from + n - 1] THEN lv[from + n - 1] ELSE 0)

RECURSIVE WinCnt(_, _, _, _)
WinCnt(lv, lm, from, n) ==
    IF n = 0 THEN 0
    ELSE WinCnt(lv, lm, from, n - 1) + (IF ~lm[from + n - 1] THEN 1 ELSE 0)

\* The window of n positions from `from` has an unmasked sample and its
\* mean over the unmasked samples exceeds thr.
WinExceeds(lv, lm, from, n, thr) ==
    /\ WinCnt(lv, lm, from, n) > 0
    /\ WinSum(lv, lm, from, n) > thr * WinCnt(lv, lm, from, n)

\* The state right after a call of horizontal_sum_threshold, of
\* vertical_sum_threshold: snap is the mask the pass began with.
AfterH == pc = "v_call" /\ axis = "h"
AfterV == pc \in {"h_call", "ret"} /\ axis = "v"
Finished == pc \in {"done", "raised"}

\* C1: window coverage.  After a pass with length > 1 every sample the pass
\* newly flagged lies in a window of `length` positions, fully inside its
\* line, whose mean over the samples unmasked at the start of the pass
\* exceeded the threshold.
C1_WindowCoverage ==
    /\ (AfterH /\ length > 1) =>
         \A y \in Rows(height) : \A x \in Cols(width) :
           (vis_mask[y][x] /\ ~snap[y][x]) =>
             \E lf \in 0 .. (width - length) :
               /\ lf <= x /\ x < lf + length
               /\ WinExceeds(RowOf(vis, y), RowOf(snap, y), lf, length, threshold)
    /\ (AfterV /\ length > 1) =>
         \A y \in Rows(height) : \A x \in Cols(width) :
           (vis_mask[y][x] /\ ~snap[y][x]) =>
             \E tp \in 0 .. (height - length) :
               /\ tp <= y /\ y < tp + length
               /\ WinExceeds(ColumnOf(vis, x, height), ColumnOf(snap, x, height),
                             tp, length, threshold)

\* C2: window completeness.  After a pass with length > 1 every window,
\* fully inside its line, whose mean over the samples unmasked at the start
\* of the pass exceeded the threshold has all its positions flagged; and the
\* scenario: [1,1,1,1,9,1,1,1], empty mask, schedule (L=2, T=3) only,
\* sensitivity 1, ends with the mask [F,F,F,T,T,F,F,F].
ScenarioBMask == [y \in Rows(1) |-> [x \in Cols(8) |-> x \in {3, 4}]]

C2_WindowCompleteness ==
    /\ (AfterH /\ length > 1) =>
         \A y \in Rows(height) : \A lf \in 0 .. (width - length) :
           WinExceeds(RowOf(vis, y), RowOf(snap, y), lf, length, threshold) =>
             \A x \in lf .. (lf + length - 1) : vis_mask[y][x]
    /\ (AfterV /\ length > 1) =>
         \A x \in Cols(width) : \A tp \in 0 .. (height - length) :
           WinExceeds(ColumnOf(vis, x, height), ColumnOf(snap, x, height),
                      tp, length, threshold) =>
             \A y \in tp .. (tp + length - 1) : vis_mask[y][x]
    /\ (/\ Finished /\ runs = 1 /\ sensitivity = 1
        /\ vis = ScenarioVis /\ init_mask = EmptyMask(1, 8)
        /\ lengths = <<2>> /\ thresholds = <<3>>) =>
         vis_mask = ScenarioBMask

\* C3: monotonic mask growth.  No step of any execute call clears a mask
\* bit, and the mask always contains the mask the current execute call
\* began with.
C3_Step ==
    /\ MaskSubset(vis_mask, vis_mask', height, width)
    /\ MaskSubset(exec_mask', vis_mask', height, width)
    /\ MaskSubset(init_mask, vis_mask', height, width)

C3_MonotonicMask == [][C3_Step]_vars

\* Witness of C3: an execute over several schedule entries has ended on a
\* mask that was supplied non-empty and that the passes have grown.
C3_Witness ==
    /\ pc = "done" /\ Len(lengths) > 1
    /\ \E y \in Rows(height) : \E x \in Cols(width) : init_mask[y][x]
    /\ \E y \in Rows(height) : \E x \in Cols(width) :
         vis_mask[y][x] /\ ~init_mask[y][x]
    /\ \E y \in Rows(height) : \E x \in Cols(width) : ~vis_mask[y][x]

\* C4: single-sample equivalence.  With the schedule holding only L=1 with
\* threshold T, the first execute(sensitivity) leaves the initial mask united
\* with the positions unmasked initially whose value exceeds sensitivity*T;
\* the horizontal pass already gives this mask and the vertical pass keeps it.
DirectMask(v, m, h, w, thr) ==
    [y \in Rows(h) |-> [x \in Cols(w) |->
        m[y][x] \/ ((~m[y][x]) /\ v[y][x] > thr)]]

C4_SingleSample ==
    (/\ lengths = <<1>> /\ runs = 1
     /\ (AfterH \/ pc = "ret" \/ Finished)) =>
        vis_mask = DirectMask(vis, init_mask, height, width,
                              sensitivity * thresholds[1])

\* Witness of C4: such an execute has ended at sensitivity 2 having flagged a
\* sample, left a sample whose value equals the scaled threshold unflagged,
\* and kept a flag supplied at construction.
C4_Witness ==
    /\ lengths = <<1>> /\ runs = 1 /\ Finished /\ sensitivity = 2
    /\ \E y \in Rows(height) : \E x \in Cols(width) :
         vis_mask[y][x] /\ ~init_mask[y][x]
    /\ \E y \in Rows(height) : \E x \in Cols(width) :
         ~vis_mask[y][x] /\ vis[y][x] = sensitivity * thresholds[1]
    /\ \E y \in Rows(height) : \E x \in Cols(width) : init_mask[y][x]

\* C5 as claimed: a second execute with the same sensitivity adds no flag.
C5_Idempotent ==
    (Finished /\ runs >= 2 /\ prev_sens = sensitivity) => vis_mask = exec_mask

\* C5 as amended: a second execute with the same sensitivity removes no
\* flag, and adds none when every schedule entry with length > 1 is
\* oversized on both axes (so that only passes of length 1 act).
OnlySinglePasses ==
    \A k \in 1 .. ZipLen(lengths, thresholds) :
        lengths[k] = 1 \/ (lengths[k] > width /\ lengths[k] > height)

C5_SecondRun ==
    (Finished /\ runs >= 2 /\ prev_sens = sensitivity) =>
        /\ MaskSubset(exec_mask, vis_mask, height, width)
        /\ OnlySinglePasses => vis_mask = exec_mask

\* Witness of C5: a second execute with the same sensitivity has ended on a
\* schedule of L=1 only, the first having added a flag and left a sample
\* unflagged.
C5_Witness ==
    /\ Finished /\ runs = 2 /\ prev_sens = sensitivity /\ lengths = <<1>>
    /\ \E y \in Rows(height) : \E x \in Cols(width) :
         vis_mask[y][x] /\ ~init_mask[y][x]
    /\ \E y \in Rows(height) : \E x \in Cols(width) : ~vis_mask[y][x]

\* C6: with min_connected > 1 requested every execute ends in the error, and
\* only after all passes: the mask at the error is the mask execute_threshold
\* leaves, the same as with min_connected = 1; with min_connected <= 1 the
\* stored value is 1 and execute never ends in the error.
C6_MinConnected ==
    /\ min_connected = (IF mc_arg > 1 THEN mc_arg ELSE 1)
    /\ pc = "raised" => mc_arg > 1
    /\ pc = "done" => mc_arg <= 1
    /\ Finished =>
         vis_mask = execute_threshold(vis, exec_mask, height, width, lengths,
                                      thresholds, sensitivity)

\* Witness of C6: an execute with min_connected = 2 has ended in the error
\* with a mask that its passes have grown.
C6_Witness ==
    /\ pc = "raised" /\ mc_arg = 2 /\ Len(lengths) = 3
    /\ vis_mask # exec_mask

\* C7: an oversized pass is a no-op.  A horizontal pass with length > width
\* and a vertical pass with length > height leave the mask and the
\* visibility array as they were, end without error, and execute goes on to
\* the next pass (or returns after the last).
C7_Step ==
    /\ (pc = "h_call" /\ lengths[i] > width) =>
         /\ vis_mask' = vis_mask /\ vis' = vis
         /\ pc' = "v_call" /\ i' = i
    /\ (pc = "v_call" /\ lengths[i] > height) =>
         /\ vis_mask' = vis_mask /\ vis' = vis
         /\ i' = i + 1
         /\ pc' = IF i < Len(lengths) THEN "h_call" ELSE "ret"

C7_OversizedNoOp == [][C7_Step]_vars

\* Witness of C7: a vertical pass with length > height has just been skipped
\* over a mask with unflagged strong samples, in an execute whose
\* horizontal pass of the same length had windows to test, and a later entry
\* of the schedule is still to run.
C7_Witness ==
    /\ pc = "h_call" /\ axis = "v" /\ i = 3 /\ runs = 1
    /\ length > height /\ length <= width
    /\ vis_mask = snap
    /\ \E y \in Rows(height) : \E x \in Cols(width) :
         ~vis_mask[y][x] /\ vis[y][x] > threshold

\* C8: running-sum invariant.  At every window test of a pass with
\* length > 1 the right edge is left + length - 1 and sm, cnt are the sum
\* and the number of the samples unmasked at the start of the pass at the
\* positions left .. left + length - 1.
C8_RunningSum ==
    \A l \in DOMAIN scan :
      scan[l].pc = "check" =>
        IF axis = "h"
        THEN /\ scan[l].st.right = scan[l].st.left + length - 1
             /\ scan[l].st.sm = WinSum(RowOf(vis, l), RowOf(snap, l),
                                       scan[l].st.left, length)
             /\ scan[l].st.cnt = WinCnt(RowOf(vis, l), RowOf(snap, l),
                                        scan[l].st.left, length)
        ELSE /\ scan[l].st.bottom = scan[l].st.top + length - 1
             /\ scan[l].st.sm = WinSum(ColumnOf(vis, l, height),
                                       ColumnOf(snap, l, height),
                                       scan[l].st.top, length)
             /\ scan[l].st.cnt = WinCnt(ColumnOf(vis, l, height),
                                        ColumnOf(snap, l, height),
                                        scan[l].st.top, length)

\* C9: windows are tested only while fully inside the line.  In a pass with
\* 1 < length <= N over lines of N samples every window test has
\* 0 <= left and left + length <= N, and a finished line has had its
\* N - length + 1 windows tested once each, in increasing order of left.
LineExtent == IF axis = "h" THEN width ELSE height
LeftEdge(st) == IF axis = "h" THEN st.left ELSE st.top

C9_WindowsInBounds ==
    \A l \in DOMAIN scan :
      /\ scan[l].pc = "check" =>
           /\ 0 <= LeftEdge(scan[l].st)
           /\ LeftEdge(scan[l].st) + length <= LineExtent
      /\ scan[l].pc = "done" =>
           scan[l].tested = [k \in 1 .. (LineExtent - length + 1) |-> k - 1]

\* C10: snapshot-then-commit and line independence.  While the lines of a
\* pass with length > 1 are scanned, in any order and interleaving, the live
\* mask and the visibility array do not change, a step of a line changes the
\* pending mask only at positions of that line, and the mask committed at
\* the end is the one the pass gives with the lines in the source's order.
LineOfCell(y, x) == IF axis = "h" THEN y ELSE x

C10_Step ==
    /\ vis' = vis
    /\ pc' = "scan" => vis_mask' = vis_mask
    /\ \A y \in Rows(height) : \A x \in Cols(width) :
         tmp_mask'[y][x] # tmp_mask[y][x] =>
           /\ scan'[LineOfCell(y, x)] # scan[LineOfCell(y, x)]
           /\ \A l \in DOMAIN scan : l # LineOfCell(y, x) => scan'[l] = scan[l]
    /\ pc' = "committed" =>
         vis_mask' = IF axis = "h"
                     THEN horizontal_sum_threshold(vis, snap, height, width,
                                                   length, threshold)
                     ELSE vertical_sum_threshold(vis, snap, height, width,
                                                 length, threshold)

C10_LineIndependence == [][C10_Step]_vars

\* Witness of C10: out of the source's order, a later line's scan has written
\* a flag to the pending mask while an earlier line's scan is part way and
\* the first line's has not begun.
C10_Witness ==
    /\ pc = "scan"
    /\ \E l \in DOMAIN scan : \E k \in DOMAIN scan :
         /\ k < l
         /\ scan[0].pc = "todo" \/ scan[k].pc = "check"
         /\ scan[k].pc \in {"todo", "check"}
         /\ scan[l].pc \in {"add", "done"}
         /\ \E c \in DOMAIN scan[l].tested :
              IF axis = "h"
              THEN tmp_mask[l][scan[l].tested[c]] /\ ~vis_mask[l][scan[l].tested[c]]
              ELSE tmp_mask[scan[l].tested[c]][l] /\ ~vis_mask[scan[l].tested[c]][l]

====
